---- MODULE Spec2Model ----
(***************************************************************************)
(* Tafsir editor: the rule-based block classifier of                       *)
(* document_processor.py, the correction path of ai_editor.py              *)
(* (edit_text, edit_block, edit_document, apply_edits) and the cached,     *)
(* resumable correction loop of app.py.                                    *)
(*                                                                         *)
(* A text is a sequence of characters.  A character is written as a short  *)
(* string naming one code point: "ar_*" are code points inside             *)
(* ARABIC_RANGE, "cy_*" / "CY_*" lower / upper case code points inside     *)
(* CYRILLIC_RANGE, "SP" the space, "NL" the newline, "TAB" and "NBSP" the  *)
(* tab and the no-break space, everything else stands for itself.          *)
(***************************************************************************)
EXTENDS Integers, Sequences, FiniteSets, TLC

VARIABLES
    document,      \* processor.document: the paragraphs of the loaded file
    blocks,        \* processor.blocks: the classified blocks (<<>> before)
    cache,         \* the cache file: block index -> EditResult
    pc,            \* "idle" | "loop" | "apply" | "done": position of the command
    kind,          \* "app" (app.py main) | "cli" (edit_document) | "none"
    use_cache,     \* app.py: the use_cache checkbox of the run
    dry_run,       \* the dry-run flag of the run
    ai_blocks,     \* the queue of the run: the (sliced) eligible blocks
    pos,           \* number of queue entries the loop has left behind
    results,       \* results list of the run
    total_changed, \* counters of the run
    total_cached,
    total_skipped,
    halted,        \* the loop was left by break
    gatewayLog,    \* gateway requests of the run, in order
    lastResult,    \* what the latest edit_block call returned (None before)
    startCache,    \* the cache as the run found it (after clear)
    modified,      \* indices of the paragraphs apply_edits rewrote as a diff
    applied,       \* the same indices, in the order apply_edits rewrote them
    diff_original, \* the word diff: the text before correction
    diff_edited,   \* the word diff: the text after correction
    diff_ops,      \* what _compute_word_diff returned (<<>> before)
    diff_paragraph,\* the runs of the paragraph apply_visual_diff works on
    diff_pc,       \* "none" | "start" | "diffed" | "returned True" | "returned False"
    file_path,     \* processor.file_path (None before any path is given)
    stats,         \* processor._stats, the cached statistics (None when reset)
    load_return,   \* what load() returned, if the latest call was load()
    argv_edit,     \* main.py --edit FILE: the path on the command line
    api_key,       \* config.OPENAI_API_KEY is set
    exit_status,   \* the exit status of main.py, once it has exited
    main_pc        \* "none" | "main" | "edit_document_with_ai" | "edit_document"
                   \* | "run" | "exited": position of main.py --edit

vars == <<document, blocks, cache, pc, kind, use_cache, dry_run, ai_blocks, pos,
          results, total_changed, total_cached, total_skipped, halted,
          gatewayLog, lastResult, startCache, modified, applied,
          diff_original, diff_edited, diff_ops, diff_paragraph, diff_pc,
          file_path, stats, load_return,
          argv_edit, api_key, exit_status, main_pc>>

cliVars == <<argv_edit, api_key, exit_status, main_pc>>

loadVars == <<file_path, stats, load_return>>

diffVars == <<diff_original, diff_edited, diff_ops, diff_paragraph, diff_pc>>

None == "None"

\* an absent colour and an absent size (both are falsy in the code's tests)
NoColor == <<>>

NoSize == 0

-----------------------------------------------------------------------------
(* Characters and the string operations the code applies to them.          *)

ArabicChars == {"ar_ba", "ar_lam"}

CyrillicLower == {"cy_a", "cy_b", "cy_ya", "cy_t", "cy_s", "cy_u", "cy_r",
                  "cy_kh", "cy_d", "cy_i", "cy_f"}

CyrillicUpper == {"CY_A", "CY_T"}

\* str.isspace(): what strip(), split() and the regex class \s take as blank
WhitespaceChars == {"SP", "NL", "TAB", "NBSP"}

Digits == {"1", "2"}

IsSpace(c) == c \in WhitespaceChars

\* str.lower() on one character
LowerChar(c) ==
    CASE c = "CY_A" -> "cy_a"
      [] c = "CY_T" -> "cy_t"
      [] c = "H" -> "h"
      [] OTHER -> c

Lower(t) == [k \in 1..Len(t) |-> LowerChar(t[k])]

Rep(c, n) == [k \in 1..n |-> c]

CountIn(t, S) == Cardinality({k \in 1..Len(t) : t[k] \in S})

\* str.strip(): drop the leading and the trailing whitespace
Strip(t) ==
    LET keep == {k \in 1..Len(t) : ~IsSpace(t[k])}
    IN  IF keep = {} THEN <<>>
        ELSE LET lo == CHOOSE k \in keep : \A m \in keep : k <= m
                 hi == CHOOSE k \in keep : \A m \in keep : m <= k
             IN  SubSeq(t, lo, hi)

RemoveAllButCyrillic(t) ==
    SelectSeq(t, LAMBDA c : c \in CyrillicLower \cup CyrillicUpper)

\* text.replace(' ', '').replace('\n', '')
RemoveSpaceNewline(t) == SelectSeq(t, LAMBDA c : c \notin {"SP", "NL"})

\* re.search of a literal word
HasSub(t, w) ==
    \E k \in 1..(Len(t) - Len(w) + 1) : \A j \in 1..Len(w) : t[k + j - 1] = w[j]

\* t[from..] starts with one or more digits followed by the characters of tail
DigitsThen(t, from, tail) ==
    \E n \in 1..(Len(t) - from + 1) :
        /\ \A k \in from..(from + n - 1) : t[k] \in Digits
        /\ from + n - 1 + Len(tail) <= Len(t)
        /\ \A j \in 1..Len(tail) : t[from + n - 1 + j] = tail[j]

\* ^\s*  at the start of t: the index of the first non-blank character
FirstNonBlank(t) ==
    IF \E k \in 1..Len(t) : ~IsSpace(t[k])
    THEN CHOOSE k \in 1..Len(t) :
             ~IsSpace(t[k]) /\ \A m \in 1..(k - 1) : IsSpace(t[m])
    ELSE Len(t) + 1

-----------------------------------------------------------------------------
(* document_processor.py                                                   *)

BlockTypes == {"AYAH", "TRANSLATION", "COMMENTARY", "HEADER", "REFERENCE",
               "EMPTY", "UNKNOWN"}

\* font names as the document gives them, and name.lower()
FontNames == {"Traditional Arabic", "Amiri", "Adobe Arabic", "Calibri"}

FontLower(name) ==
    CASE name = "Traditional Arabic" -> "traditional arabic"
      [] name = "Amiri" -> "amiri"
      [] name = "Adobe Arabic" -> "adobe arabic"
      [] name = "Calibri" -> "calibri"
      [] OTHER -> name

ARABIC_FONTS == {"traditional arabic", "arabic typesetting", "sakkal majalla",
                 "simplified arabic", "arabic transparent", "al-quran",
                 "scheherazade", "amiri", "lateef", "noto naskh arabic",
                 "times new roman"}

\* 'arabic' in name.lower(), for the names above
ContainsArabic(lname) ==
    lname \in {"traditional arabic", "adobe arabic", "arabic typesetting",
               "simplified arabic", "arabic transparent", "noto naskh arabic"}

RED_THRESHOLD == 150

TranslationMaxLen == 500

DefaultFontInfo ==
    [name |-> None, size |-> NoSize, bold |-> FALSE, italic |-> FALSE,
     color_rgb |-> NoColor, is_arabic_font |-> FALSE]

FontStepOverwrite(info, r) ==
    [name |-> r.name, size |-> r.size, bold |-> r.bold, italic |-> r.italic,
     color_rgb |-> r.color_rgb,
     is_arabic_font |-> r.name # None /\ FontLower(r.name) \in ARABIC_FONTS]

\* one pass of the loop body over run r, info being what the earlier runs left
FontStep(info, r) ==
    LET named == IF r.name # None
                 THEN [info EXCEPT !.name = r.name,
                                   !.is_arabic_font = FontLower(r.name) \in ARABIC_FONTS]
                 ELSE info
        sized == IF r.size # NoSize THEN [named EXCEPT !.size = r.size] ELSE named
        styled == [sized EXCEPT !.bold = r.bold, !.italic = r.italic]
    IN  IF r.color_rgb # NoColor THEN [styled EXCEPT !.color_rgb = r.color_rgb]
        ELSE styled

RECURSIVE FontScan(_, _, _)
FontScan(runs, k, info) ==
    IF k > Len(runs) THEN info
    ELSE IF Strip(runs[k].text) = <<>> THEN FontScan(runs, k + 1, info)
    ELSE LET next == FontStep(info, runs[k])
         IN  IF next.name # None THEN next ELSE FontScan(runs, k + 1, next)

_extract_font_info(paragraph) == FontScan(paragraph.runs, 1, DefaultFontInfo)

_is_red_color_bright(rgb) ==
    IF rgb = NoColor THEN FALSE
    ELSE rgb[1] > RED_THRESHOLD + 50 /\ rgb[2] < 100 /\ rgb[3] < 100

_is_red_color(rgb) ==
    IF rgb = NoColor THEN FALSE
    ELSE rgb[1] > RED_THRESHOLD /\ rgb[2] < 100 /\ rgb[3] < 100

_count_script_chars_rest_as_cyrillic(text) ==
    LET arabic == CountIn(text, ArabicChars)
    IN  <<arabic, Len(text) - arabic, 0>>

_count_script_chars(text) ==
    LET arabic == CountIn(text, ArabicChars)
        cyrillic == CountIn(text, CyrillicLower \cup CyrillicUpper)
    IN  <<arabic, cyrillic, Len(text) - arabic - cyrillic>>

\* arabic_ratio is the fraction num/den; den = 1 and num = 0 stand for the
\* literal 0 the code takes when total_chars is 0
RatioGE(r, n, d) == r.num * d >= n * r.den

RatioGT(r, n, d) == r.num * d > n * r.den

RatioLT(r, n, d) == r.num * d < n * r.den

\* the four ref_patterns, searched in text_stripped.lower()
MatchesRefPattern(t) ==
    LET f == FirstNonBlank(t)
    IN  \/ (f <= Len(t) /\ t[f] = "[" /\ DigitsThen(t, f + 1, <<"]">>))
        \/ (f <= Len(t) /\ t[f] = "("
              /\ \E n \in 1..Len(t) :
                    /\ f + n + 1 <= Len(t)
                    /\ \A k \in (f + 1)..(f + n) : t[k] \in Digits
                    /\ t[f + n + 1] = ":"
                    /\ DigitsThen(t, f + n + 2, <<")">>))
        \/ \E w \in WhitespaceChars : DigitsThen(t, f, <<".", w>>)
        \/ HasSub(t, <<"cy_s", "cy_u", "cy_r", "cy_a">>)
        \/ HasSub(t, <<"cy_a", "cy_ya", "cy_t">>)
        \/ HasSub(t, <<"cy_kh", "cy_a", "cy_d", "cy_i", "cy_s">>)

\* 'heading' in style_name.lower(), for the style names of StyleNames
StyleNames == {"", "Normal", "Heading 1"}

StyleIsHeading(style_name) == style_name \in {"Heading 1"}

_detect_block_type(text, font_info, arabic_ratio, has_arabic, has_cyrillic, style_name) ==
    LET text_stripped == Strip(text)
        is_red == _is_red_color(font_info.color_rgb)
    IN  IF text_stripped = <<>>
          THEN [type |-> "EMPTY", reason |-> "Empty paragraph"]
        ELSE IF style_name # "" /\ StyleIsHeading(style_name)
          THEN [type |-> "HEADER", reason |-> "Style"]
        ELSE IF RatioGT(arabic_ratio, 9, 10) /\ is_red
          THEN [type |-> "AYAH", reason |-> "Pure Arabic + red color"]
        ELSE IF RatioGT(arabic_ratio, 9, 10) /\ font_info.is_arabic_font
          THEN [type |-> "AYAH", reason |-> "Pure Arabic + font"]
        ELSE IF RatioGT(arabic_ratio, 95, 100)
          THEN [type |-> "AYAH", reason |-> "Pure Arabic text (>95%)"]
        ELSE IF /\ RatioGT(arabic_ratio, 8, 10)
                /\ font_info.name # None
                /\ ContainsArabic(FontLower(font_info.name))
          THEN [type |-> "AYAH", reason |-> "High Arabic ratio + font"]
        ELSE IF ~has_arabic /\ has_cyrillic /\ Len(text_stripped) < TranslationMaxLen
          THEN [type |-> "TRANSLATION", reason |-> "Pure Cyrillic, moderate length"]
        ELSE IF has_cyrillic /\ RatioLT(arabic_ratio, 3, 10)
          THEN [type |-> "COMMENTARY", reason |-> "Cyrillic-dominant"]
        ELSE IF has_cyrillic /\ has_arabic /\ RatioLT(arabic_ratio, 5, 10)
          THEN [type |-> "COMMENTARY", reason |-> "Mixed text, Cyrillic-dominant"]
        ELSE IF MatchesRefPattern(Lower(text_stripped))
          THEN [type |-> "REFERENCE", reason |-> "Matches reference pattern"]
        ELSE IF has_arabic /\ ~has_cyrillic
          THEN [type |-> "AYAH", reason |-> "Arabic-only (fallback)"]
        ELSE [type |-> "UNKNOWN", reason |-> "No matching rules"]

\* paragraph.text: the texts of the runs, joined
RECURSIVE ConcatRuns(_, _)
ConcatRuns(runs, k) ==
    IF k > Len(runs) THEN <<>> ELSE runs[k].text \o ConcatRuns(runs, k + 1)

ParagraphText(paragraph) == ConcatRuns(paragraph.runs, 1)

CanProcessUnlessListed(block_type) ==
    block_type \notin {"HEADER", "REFERENCE", "EMPTY", "UNKNOWN"}

CanProcessCommentaryOnly(block_type) == block_type \in {"COMMENTARY"}

\* can_ai = block_type in (BlockType.COMMENTARY, BlockType.TRANSLATION)
CanProcessWithAI(block_type) == block_type \in {"COMMENTARY", "TRANSLATION"}

classify_paragraph(index, paragraph) ==
    LET text == ParagraphText(paragraph)
        counts == _count_script_chars(text)
        total_chars == Len(RemoveSpaceNewline(text))
        has_arabic == counts[1] > 0
        has_cyrillic == counts[2] > 0
        arabic_ratio == IF total_chars > 0
                        THEN [num |-> counts[1], den |-> total_chars]
                        ELSE [num |-> 0, den |-> 1]
        font_info == _extract_font_info(paragraph)
        detected == _detect_block_type(text, font_info, arabic_ratio, has_arabic,
                                       has_cyrillic, paragraph.style)
        can_ai == CanProcessWithAI(detected.type)
    IN  [index |-> index,
         block_type |-> detected.type,
         detection_reason |-> detected.reason,
         text |-> text,
         has_arabic |-> has_arabic,
         has_cyrillic |-> has_cyrillic,
         is_mixed |-> has_arabic /\ has_cyrillic,
         arabic_ratio |-> arabic_ratio,
         primary_font |-> font_info.name,
         font_size |-> font_info.size,
         is_bold |-> font_info.bold,
         is_italic |-> font_info.italic,
         text_color |-> font_info.color_rgb,
         is_red_text |-> _is_red_color(font_info.color_rgb),
         can_process_with_ai |-> can_ai,
         ai_processing_notes |->
             IF detected.type = "AYAH" THEN "PROTECTED"
             ELSE IF can_ai THEN "Can process" ELSE ""]

\* block indices are the 0-based paragraph positions
ClassifyAll(doc) == [k \in 1..Len(doc) |-> classify_paragraph(k - 1, doc[k])]

-----------------------------------------------------------------------------
(* The paragraphs the classifier is run on.                                *)

MaxOther == 2

Run(text, name, color) ==
    [text |-> text, name |-> name, size |-> NoSize, bold |-> FALSE,
     italic |-> FALSE, color_rgb |-> color]

RunColors == {NoColor, <<151, 99, 99>>, <<150, 99, 99>>, <<151, 100, 99>>,
              <<151, 99, 100>>}

\* the label the sample document opens its commentary with ("Тафсир:")
ExplanationPrefixes == {<<"CY_T", "cy_a", "cy_f", "cy_s", "cy_i", "cy_r", ":">>}

BeginsWithExplanationPrefix(text) ==
    \E p \in ExplanationPrefixes :
        /\ Len(p) <= Len(Strip(text))
        /\ SubSeq(Strip(text), 1, Len(p)) = p

Leads == {<<>>, <<"TAB">>}

Heads == {<<>>, <<"[", "1", "]">>, <<"(", "1", ":", "2", ")">>,
          <<"1", ".", "SP">>, <<"CY_A", "cy_ya", "cy_t">>}
         \cup ExplanationPrefixes

Body(nA, nC, nO) ==
    Rep("ar_ba", nA) \o (IF nA > 0 /\ nC > 0 THEN <<"SP">> ELSE <<>>)
        \o Rep("cy_b", nC) \o Rep("h", nO)

ShortTexts ==
    {l \o h \o Body(nA, nC, nO) :
        l \in Leads, h \in Heads, nA \in {0, 1, 4, 9, 10, 20},
        nC \in {0, 1, 3}, nO \in 0..MaxOther}

LongTexts ==
    {l \o Body(nA, nC, 0) : l \in Leads, nA \in {0, 1},
        nC \in {TranslationMaxLen - 2, TranslationMaxLen - 1, TranslationMaxLen}}

ClassifyTexts == ShortTexts \cup LongTexts

\* a paragraph without runs has no text; otherwise one run carries the text
ClassifyParagraphs ==
    {[runs |-> <<>>, style |-> s] : s \in StyleNames}
    \cup {[runs |-> <<Run(t, n, c)>>, style |-> s] :
            t \in ClassifyTexts, n \in FontNames \cup {None}, c \in RunColors,
            s \in StyleNames}

-----------------------------------------------------------------------------
(* ai_editor.py: the correction of one block                               *)

\* str.upper() on one character; the characters not listed have no upper
\* case form among the letters of the keyword
UpperChar(c) ==
    CASE c = "o" -> "O"
      [] c = "r" -> "R"
      [] c = "i" -> "I"
      [] c = "g" -> "G"
      [] c = "n" -> "N"
      [] c = "a" -> "A"
      [] c = "l" -> "L"
      [] c = "h" -> "H"
      [] c = "cy_a" -> "CY_A"
      [] c = "cy_t" -> "CY_T"
      [] OTHER -> c

UpperForgotten(t) == t

Upper(t) == [k \in 1..Len(t) |-> UpperChar(t[k])]

ORIGINAL == <<"O", "R", "I", "G", "I", "N", "A", "L">>

\* what one chat.completions.create call does: it raises, or it returns
\* message.content
Raises == [raised |-> TRUE, content |-> <<>>]

Returns(content) == [raised |-> FALSE, content |-> content]

EditResult(block, edited_text, was_changed, error, skipped_original) ==
    [block_index |-> block.index,
     original_text |-> block.text,
     edited_text |-> edited_text,
     was_changed |-> was_changed,
     error |-> error,
     skipped_original |-> skipped_original]

edit_text_trimmed_on_error(client_ready, text, outcome) ==
    IF ~client_ready
      THEN [edited |-> text, error |-> "OpenAI client not initialized",
            calls |-> <<>>]
    ELSE IF Strip(text) = <<>>
      THEN [edited |-> text, error |-> None, calls |-> <<>>]
    ELSE IF outcome.raised
      THEN [edited |-> Strip(text), error |-> "OpenAI API error",
            calls |-> <<outcome>>]
    ELSE [edited |-> Strip(outcome.content), error |-> None,
          calls |-> <<outcome>>]

\* calls: the requests edit_text sent to the gateway, in order
edit_text(client_ready, text, outcome) ==
    IF ~client_ready
      THEN [edited |-> text, error |-> "OpenAI client not initialized",
            calls |-> <<>>]
    ELSE IF Strip(text) = <<>>
      THEN [edited |-> text, error |-> None, calls |-> <<>>]
    ELSE IF outcome.raised
      THEN [edited |-> text, error |-> "OpenAI API error", calls |-> <<outcome>>]
    ELSE [edited |-> Strip(outcome.content), error |-> None,
          calls |-> <<outcome>>]

edit_text_unguarded(client_ready, block, outcome) ==
    edit_text(client_ready, block.text, outcome)

\* the call edit_block makes once the block has passed its guard
EditTextOfBlock(client_ready, block, outcome) ==
    IF ~block.can_process_with_ai
      THEN [edited |-> block.text,
            error |-> "Block is not marked for AI processing", calls |-> <<>>]
    ELSE edit_text(client_ready, block.text, outcome)

WasChangedUntrimmed(edited_text, block_text) == edited_text # block_text

\* was_changed = edited_text.strip() != block.text.strip()
WasChanged(edited_text, block_text) == Strip(edited_text) # Strip(block_text)

edit_block(client_ready, block, outcome) ==
    LET t == EditTextOfBlock(client_ready, block, outcome)
    IN  IF ~block.can_process_with_ai
          THEN [result |-> EditResult(block, block.text, FALSE, t.error, FALSE),
                calls |-> t.calls]
        ELSE IF Upper(Strip(t.edited)) = ORIGINAL
          THEN [result |-> EditResult(block, block.text, FALSE, None, TRUE),
                calls |-> t.calls]
        ELSE [result |-> EditResult(block, t.edited,
                                    WasChanged(t.edited, block.text),
                                    t.error, FALSE),
              calls |-> t.calls]

\* the attempt ceiling app.py asks edit_block for
max_retries == 3

\* what the gateway may answer to a request for text
Corrected(text) == text \o <<"cy_i">>

\* (the text itself is among the answers where trimming it changes it)
GatewayOutcomes(text) ==
    {Raises, Returns(ORIGINAL),
     Returns(<<"SP", "O", "r", "i", "g", "i", "n", "a", "l", "NL">>),
     Returns(<<>>), Returns(<<"SP">>), Returns(Corrected(text))}
    \cup (IF Strip(text) # text THEN {Returns(text)} ELSE {})

\* the keyword in lower case
OriginalLower == <<"o", "r", "i", "g", "i", "n", "a", "l">>

\* the answer, trimmed, is the keyword in some letter case
IsSentinel(content) ==
    LET c == Strip(content)
    IN  /\ Len(c) = Len(ORIGINAL)
        /\ \A k \in 1..Len(c) : c[k] \in {ORIGINAL[k], OriginalLower[k]}

\* a request as the log keeps it: the block it was for, whether the call
\* raised, whether the answer was blank, and whether it was the keyword
LogEntry(block, outcome) ==
    [block_index |-> block.index,
     raised |-> outcome.raised,
     keyword |-> ~outcome.raised /\ IsSentinel(outcome.content),
     blank |-> ~outcome.raised /\ Strip(outcome.content) = <<>>]

LogOf(block, calls) == [k \in 1..Len(calls) |-> LogEntry(block, calls[k])]

-----------------------------------------------------------------------------
(* ai_editor.py: the word diff.  A word is a sequence of characters, a     *)
(* word list a sequence of words; indices into word lists are 0-based and  *)
(* ranges half-open, as in difflib.                                        *)

\* str.split(): the maximal runs of non-whitespace characters.  The text is
\* halved, and a word that runs across the cut is put together again
RECURSIVE Split(_)
Split(t) ==
    IF t = <<>> THEN <<>>
    ELSE IF Len(t) = 1 THEN (IF IsSpace(t[1]) THEN <<>> ELSE <<t>>)
    ELSE LET h == Len(t) \div 2
             left == Split(SubSeq(t, 1, h))
             right == Split(SubSeq(t, h + 1, Len(t)))
         IN  IF IsSpace(t[h]) \/ IsSpace(t[h + 1]) THEN left \o right
             ELSE SubSeq(left, 1, Len(left) - 1)
                    \o <<left[Len(left)] \o right[1]>>
                    \o Tail(right)

\* ' '.join(words), by halves
RECURSIVE Join(_)
Join(words) ==
    IF words = <<>> THEN <<>>
    ELSE IF Len(words) = 1 THEN words[1]
    ELSE LET h == Len(words) \div 2
         IN  Join(SubSeq(words, 1, h)) \o <<"SP">>
                \o Join(SubSeq(words, h + 1, Len(words)))

SliceShort(words, i, j) == SubSeq(words, i + 1, j - 1)

\* words[i:j]
Slice(words, i, j) == SubSeq(words, i + 1, j)

\* SequenceMatcher(None, a, b) keeps autojunk on: in a b of at least 200
\* elements, an element that occurs more than len(b) // 100 + 1 times is
\* "popular" and no match may start from it
AutojunkMinLen == 200

Popular(b) ==
    IF Len(b) >= AutojunkMinLen
      THEN {b[k] : k \in {m \in 1..Len(b) :
                Cardinality({n \in 1..Len(b) : b[n] = b[m]}) > Len(b) \div 100 + 1}}
      ELSE {}

\* j2len: the length of the run of equal, indexed elements that ends at
\* a[i], b[j] inside the window that starts at alo, blo
RunLen(a, b, i, j, alo, blo, popular) ==
    LET most == IF i - alo < j - blo THEN i - alo + 1 ELSE j - blo + 1
        same(n) == a[i - n + 1] = b[j - n + 1] /\ b[j - n + 1] \notin popular
    IN  CHOOSE k \in 0..most :
            /\ \A n \in 0..(k - 1) : same(n)
            /\ k = most \/ ~same(k)

\* the two loops that extend a match <<i, j, k>> by equal elements on either
\* side
ExtendBack(a, b, m, alo, blo) ==
    LET most == IF m[1] - alo < m[2] - blo THEN m[1] - alo ELSE m[2] - blo
        same(n) == a[m[1] - n] = b[m[2] - n]
        more == CHOOSE k \in 0..most :
                    /\ \A n \in 0..(k - 1) : same(n)
                    /\ k = most \/ ~same(k)
    IN  <<m[1] - more, m[2] - more, m[3] + more>>

ExtendNowhere(a, b, m, ahi, bhi) == m

ExtendForward(a, b, m, ahi, bhi) ==
    LET most == IF ahi - (m[1] + m[3]) < bhi - (m[2] + m[3])
                THEN ahi - (m[1] + m[3]) ELSE bhi - (m[2] + m[3])
        same(n) == a[m[1] + m[3] + n + 1] = b[m[2] + m[3] + n + 1]
        more == CHOOSE k \in 0..most :
                    /\ \A n \in 0..(k - 1) : same(n)
                    /\ k = most \/ ~same(k)
    IN  <<m[1], m[2], m[3] + more>>

\* <<i, j, k>>: the longest a[i:i+k] = b[j:j+k] inside a[alo:ahi], b[blo:bhi];
\* of the longest, the one that starts earliest in a, then earliest in b
find_longest_match(a, b, alo, ahi, blo, bhi) ==
    LET popular == Popular(b)
        ends == {e \in (alo..(ahi - 1)) \X (blo..(bhi - 1)) :
                    a[e[1] + 1] = b[e[2] + 1] /\ b[e[2] + 1] \notin popular}
        len == [e \in ends |-> RunLen(a, b, e[1], e[2], alo, blo, popular)]
        bestsize == CHOOSE k \in {len[e] : e \in ends} : \A f \in ends : len[f] <= k
        longest == {e \in ends : len[e] = bestsize}
        first == CHOOSE e \in longest :
                    \A f \in longest :
                        e[1] < f[1] \/ (e[1] = f[1] /\ e[2] <= f[2])
        best == IF ends = {} THEN <<alo, blo, 0>>
                ELSE <<first[1] - bestsize + 1, first[2] - bestsize + 1, bestsize>>
    IN  ExtendForward(a, b, ExtendBack(a, b, best, alo, blo), ahi, bhi)

\* the matches of get_matching_blocks inside one window, sorted: the longest
\* match, then the matches to its left and to its right
RECURSIVE MatchesIn(_, _, _, _, _, _)
MatchesIn(a, b, alo, ahi, blo, bhi) ==
    LET x == find_longest_match(a, b, alo, ahi, blo, bhi)
        i == x[1]
        j == x[2]
        k == x[3]
    IN  IF k = 0 THEN <<>>
        ELSE (IF alo < i /\ blo < j THEN MatchesIn(a, b, alo, i, blo, j) ELSE <<>>)
             \o <<x>>
             \o (IF i + k < ahi /\ j + k < bhi
                 THEN MatchesIn(a, b, i + k, ahi, j + k, bhi) ELSE <<>>)

\* adjacent matches are collapsed into one
RECURSIVE Collapse(_, _, _)
Collapse(ms, k, cur) ==
    IF k > Len(ms) THEN (IF cur[3] > 0 THEN <<cur>> ELSE <<>>)
    ELSE IF cur[1] + cur[3] = ms[k][1] /\ cur[2] + cur[3] = ms[k][2]
      THEN Collapse(ms, k + 1, <<cur[1], cur[2], cur[3] + ms[k][3]>>)
    ELSE (IF cur[3] > 0 THEN <<cur>> ELSE <<>>) \o Collapse(ms, k + 1, ms[k])

get_matching_blocks(a, b) ==
    Collapse(MatchesIn(a, b, 0, Len(a), 0, Len(b)), 1, <<0, 0, 0>>)
        \o <<<<Len(a), Len(b), 0>>>>

Opcode(tag, i1, i2, j1, j2) == [tag |-> tag, i1 |-> i1, i2 |-> i2, j1 |-> j1, j2 |-> j2]

RECURSIVE OpcodesFrom(_, _, _, _)
OpcodesFrom(ms, k, i, j) ==
    IF k > Len(ms) THEN <<>>
    ELSE LET ai == ms[k][1]
             bj == ms[k][2]
             size == ms[k][3]
             gap == IF i < ai /\ j < bj THEN <<Opcode("replace", i, ai, j, bj)>>
                    ELSE IF i < ai THEN <<Opcode("delete", i, ai, j, bj)>>
                    ELSE IF j < bj THEN <<Opcode("insert", i, ai, j, bj)>>
                    ELSE <<>>
             same == IF size > 0
                     THEN <<Opcode("equal", ai, ai + size, bj, bj + size)>>
                     ELSE <<>>
         IN  gap \o same \o OpcodesFrom(ms, k + 1, ai + size, bj + size)

get_opcodes(a, b) == OpcodesFrom(get_matching_blocks(a, b), 1, 0, 0)

DiffOperation(operation, text) == [operation |-> operation, text |-> text]

OperationsOfInsertFirst(op, old_words, new_words) ==
    IF op.tag = "equal"
      THEN <<DiffOperation("equal", Join(SubSeq(old_words, op.i1 + 1, op.i2)))>>
    ELSE (IF op.j1 < op.j2
          THEN <<DiffOperation("insert", Join(SubSeq(new_words, op.j1 + 1, op.j2)))>>
          ELSE <<>>)
         \o (IF op.i1 < op.i2
             THEN <<DiffOperation("delete", Join(SubSeq(old_words, op.i1 + 1, op.i2)))>>
             ELSE <<>>)

\* the DiffOperations one opcode becomes
OperationsOf(op, old_words, new_words) ==
    IF op.tag = "equal"
      THEN <<DiffOperation("equal", Join(Slice(old_words, op.i1, op.i2)))>>
    ELSE IF op.tag = "delete"
      THEN <<DiffOperation("delete", Join(Slice(old_words, op.i1, op.i2)))>>
    ELSE IF op.tag = "insert"
      THEN <<DiffOperation("insert", Join(Slice(new_words, op.j1, op.j2)))>>
    ELSE (IF op.i1 < op.i2
          THEN <<DiffOperation("delete", Join(Slice(old_words, op.i1, op.i2)))>>
          ELSE <<>>)
         \o (IF op.j1 < op.j2
             THEN <<DiffOperation("insert", Join(Slice(new_words, op.j1, op.j2)))>>
             ELSE <<>>)

RECURSIVE OperationsFrom(_, _, _, _)
OperationsFrom(ops, k, old_words, new_words) ==
    IF k > Len(ops) THEN <<>>
    ELSE OperationsOf(ops[k], old_words, new_words)
            \o OperationsFrom(ops, k + 1, old_words, new_words)

_compute_word_diff(old_text, new_text) ==
    LET old_words == Split(old_text)
        new_words == Split(new_text)
    IN  OperationsFrom(get_opcodes(old_words, new_words), 1, old_words, new_words)

\* a run of the rewritten paragraph, with the formatting add_run is followed by
DiffRun(text, strike, highlight_color, color_rgb) ==
    [text |-> text, strike |-> strike, highlight_color |-> highlight_color,
     color_rgb |-> color_rgb]

PlainRun(text) == DiffRun(text, FALSE, None, NoColor)

\* one pass of the loop of apply_visual_diff, over diff_ops[i] (1-based)
RunsOfOperation(ops, i) ==
    LET op == ops[i]
        before == IF i > 1 /\ op.operation # "equal" /\ ops[i - 1].operation # "equal"
                  THEN <<PlainRun(<<"SP">>)>> ELSE <<>>
        run == IF op.operation = "equal" THEN PlainRun(op.text)
               ELSE IF op.operation = "delete"
                 THEN DiffRun(op.text, TRUE, None, <<180, 0, 0>>)
               ELSE DiffRun(op.text, FALSE, "YELLOW", <<0, 100, 0>>)
        after == IF i < Len(ops) /\ ops[i + 1].operation = "equal"
                 THEN <<PlainRun(<<"SP">>)>> ELSE <<>>
    IN  IF op.text = <<>> THEN <<>> ELSE before \o <<run>> \o after

RECURSIVE RunsFrom(_, _)
RunsFrom(ops, i) ==
    IF i > Len(ops) THEN <<>> ELSE RunsOfOperation(ops, i) \o RunsFrom(ops, i + 1)

\* the runs apply_visual_diff leaves in the paragraph it has cleared
RenderedRuns(original, edited) == RunsFrom(_compute_word_diff(original, edited), 1)

\* apply_visual_diff rewrites the paragraph (returns True)
apply_visual_diff(paragraph_index, original, edited) ==
    /\ paragraph_index < Len(document)
    /\ Strip(original) # Strip(edited)

apply_edits_reversed(edit_results, k) ==
    LET n == Len(edit_results)
        picked == {m \in 1..n :
                      /\ edit_results[m].was_changed
                      /\ edit_results[m].error = None
                      /\ ~edit_results[m].skipped_original
                      /\ apply_visual_diff(edit_results[m].block_index,
                                           edit_results[m].original_text,
                                           edit_results[m].edited_text)}
        \* the picked positions, last first
        nth[j \in 1..Cardinality(picked)] ==
            CHOOSE m \in picked : Cardinality({q \in picked : q > m}) = j - 1
    IN  [j \in 1..Cardinality(picked) |-> edit_results[nth[j]].block_index]

\* for result in edit_results: the block indices in the order apply_edits
\* calls apply_visual_diff with success, from edit_results[k] on
RECURSIVE apply_edits_order(_, _)
apply_edits_order(edit_results, k) ==
    IF k > Len(edit_results) THEN <<>>
    ELSE (IF /\ edit_results[k].was_changed
             /\ edit_results[k].error = None
             /\ ~edit_results[k].skipped_original
             /\ apply_visual_diff(edit_results[k].block_index,
                                  edit_results[k].original_text,
                                  edit_results[k].edited_text)
          THEN <<edit_results[k].block_index>> ELSE <<>>)
         \o apply_edits_order(edit_results, k + 1)

\* the paragraphs apply_edits rewrites as a word diff
apply_edits(edit_results) ==
    {edit_results[k].block_index : k \in
        {m \in 1..Len(edit_results) :
            /\ edit_results[m].was_changed
            /\ edit_results[m].error = None
            /\ ~edit_results[m].skipped_original
            /\ apply_visual_diff(edit_results[m].block_index,
                                 edit_results[m].original_text,
                                 edit_results[m].edited_text)}}

-----------------------------------------------------------------------------
(* The cache file (EditCache): one result per block index.                 *)

EditCache_get_result(c, index) == {r \in c : r.block_index = index}

EditCache_save_result(c, result) ==
    {r \in c : r.block_index # result.block_index} \cup {result}

EditCache_clear(c) == {}

-----------------------------------------------------------------------------
(* The documents the correction commands are run on.                       *)

MaxParas == 2

AyahParagraph ==
    [runs |-> <<Run(<<"ar_ba", "ar_lam">>, None, <<180, 0, 0>>)>>,
     style |-> "Normal"]

TranslationParagraph ==
    [runs |-> <<Run(<<"cy_b", "cy_a", "SP", "cy_t", "SP">>, None, NoColor)>>,
     style |-> "Normal"]

CommentaryParagraph ==
    [runs |-> <<Run(<<"cy_b", "cy_i", "cy_b", "cy_i", "SP", "ar_ba">>,
                    "Calibri", NoColor)>>,
     style |-> "Normal"]

SampleParagraphs == {AyahParagraph, TranslationParagraph, CommentaryParagraph}

Documents ==
    UNION {[1..n -> SampleParagraphs] : n \in 1..MaxParas}

NoResult == <<>>

\* Document(path) has not been opened: self.document is None
NoDocument == <<>>

\* self.file_path is None; a path is the pair of its stem and its suffix
NoPath == <<>>

\* self._stats is None
NoStats == <<>>

\* main.py has not exited
NotExited == <<>>

\* sys.exit(code), or the status 0 of a main() that returns
sys_exit(code) == <<code>>

\* main.py is not running
IdleCli ==
    /\ argv_edit = NoPath
    /\ api_key = TRUE
    /\ exit_status = NotExited
    /\ main_pc = "none"

\* a processor whose document was loaded from the sample file
SampleLoaded ==
    /\ file_path = <<"sample_tafsir", ".docx">>
    /\ stats = NoStats
    /\ load_return = None

\* no word diff is being computed
IdleDiff ==
    /\ diff_original = <<>>
    /\ diff_edited = <<>>
    /\ diff_ops = <<>>
    /\ diff_paragraph = <<>>
    /\ diff_pc = "none"

IdleRun ==
    /\ pc = "idle"
    /\ kind = "none"
    /\ use_cache = FALSE
    /\ dry_run = FALSE
    /\ ai_blocks = <<>>
    /\ pos = 0
    /\ results = <<>>
    /\ total_changed = 0
    /\ total_cached = 0
    /\ total_skipped = 0
    /\ halted = FALSE
    /\ gatewayLog = <<>>
    /\ lastResult = NoResult
    /\ startCache = {}
    /\ modified = {}
    /\ applied = <<>>

runVars == <<pc, kind, use_cache, dry_run, ai_blocks, pos, results,
             total_changed, total_cached, total_skipped, halted, gatewayLog,
             lastResult, startCache, modified, applied>>

\* processor.classify_document(), on the loaded document
classify_document ==
    /\ pc = "idle"
    /\ document # NoDocument
    /\ blocks' = ClassifyAll(document)
    /\ stats' = NoStats
    /\ load_return' = None
    /\ UNCHANGED <<document, cache, runVars, file_path>>
    /\ UNCHANGED diffVars
    /\ UNCHANGED cliVars

InitClassify ==
    /\ SampleLoaded
    /\ IdleCli
    /\ document \in {<<p>> : p \in ClassifyParagraphs}
    /\ blocks = <<>>
    /\ cache = {}
    /\ IdleRun
    /\ IdleDiff

SpecClassify == InitClassify /\ [][classify_document]_vars

\* Paragraphs of several formatted runs, for _extract_font_info: a run is
\* blank or a word, names a font or not, and carries a size, a weight, a
\* slant and a colour or not.
MaxRuns == 2

FontRuns ==
    [text : {<<"SP">>, <<"cy_b">>}, name : {None, "Amiri"}, size : {NoSize, 12},
     bold : BOOLEAN, italic : BOOLEAN, color_rgb : {NoColor, <<180, 0, 0>>}]

RECURSIVE RunLists(_)
RunLists(n) ==
    IF n = 0 THEN {<<>>}
    ELSE LET shorter == RunLists(n - 1)
         IN  shorter \cup {<<r>> \o l : r \in FontRuns,
                                        l \in {x \in shorter : Len(x) = n - 1}}

FontParagraphs == {[runs |-> l, style |-> "Normal"] : l \in RunLists(MaxRuns)}

InitFont ==
    /\ SampleLoaded
    /\ IdleCli
    /\ document \in {<<p>> : p \in FontParagraphs}
    /\ blocks = <<>>
    /\ cache = {}
    /\ IdleRun
    /\ IdleDiff

SpecFont == InitFont /\ [][classify_document]_vars

-----------------------------------------------------------------------------
(* Loading: the processor and the files it is pointed at.                  *)

\* the files load() is called with: five documents, a path that does not
\* exist, two files of another kind, and a .docx file python-docx cannot parse
LoadPaths ==
    {<<"a", ".docx">>, <<"b", ".docx">>, <<"c", ".DOCX">>, <<"d", ".docx">>,
     <<"e", ".docx">>, <<"missing", ".docx">>, <<"notes", ".txt">>,
     <<"scan", ".DOC">>, <<"broken", ".docx">>}

\* self.file_path.exists()
Exists(path) == path[1] # "missing"

\* self.file_path.suffix.lower()
SuffixLower(path) ==
    CASE path[2] = ".DOCX" -> ".docx"
      [] path[2] = ".DOC" -> ".doc"
      [] OTHER -> path[2]

\* Document(str(self.file_path)) raises
ParseFails(path) == path[1] = "broken"

\* Document(str(self.file_path)): the paragraphs of the file
Document(path) ==
    CASE path[1] = "a" -> <<AyahParagraph>>
      [] path[1] = "b" -> <<TranslationParagraph, CommentaryParagraph>>
      [] path[1] = "c" -> <<CommentaryParagraph>>
      [] path[1] = "d" -> <<CommentaryParagraph, AyahParagraph>>
      [] OTHER -> <<AyahParagraph, TranslationParagraph>>

\* the checks of load() and the parse: one of them fails
LoadFails(path) ==
    \/ path = NoPath
    \/ ~Exists(path)
    \/ SuffixLower(path) # ".docx"
    \/ ParseFails(path)

\* the body of load(file_path): what it does to the processor
load_body(path_arg) ==
    LET path == IF path_arg # NoPath THEN path_arg ELSE file_path
    IN  /\ file_path' = path
        /\ IF LoadFails(path)
             THEN /\ load_return' = "False"
                  /\ UNCHANGED <<document, blocks, stats>>
             ELSE /\ document' = Document(path)
                  /\ blocks' = <<>>
                  /\ stats' = NoStats
                  /\ load_return' = "True"

\* processor.load(file_path)
load(path_arg) ==
    /\ pc = "idle"
    /\ load_body(path_arg)
    /\ UNCHANGED <<cache, runVars>>
    /\ UNCHANGED diffVars
    /\ UNCHANGED cliVars

\* DocumentStats: total_blocks, ayah_blocks, translation_blocks,
\* commentary_blocks, ai_processable_blocks
DocumentStats(bs) ==
    <<Len(bs),
      Len(SelectSeq(bs, LAMBDA b : b.block_type = "AYAH")),
      Len(SelectSeq(bs, LAMBDA b : b.block_type = "TRANSLATION")),
      Len(SelectSeq(bs, LAMBDA b : b.block_type = "COMMENTARY")),
      Len(SelectSeq(bs, LAMBDA b : b.can_process_with_ai))>>

\* processor.get_stats(); without blocks it classifies first, which raises
\* when no document is loaded
get_stats ==
    /\ pc = "idle"
    /\ blocks = <<>> => document # NoDocument
    /\ blocks' = IF blocks = <<>> THEN ClassifyAll(document) ELSE blocks
    /\ stats' = IF blocks # <<>> /\ stats # NoStats THEN stats
                ELSE DocumentStats(blocks')
    /\ load_return' = None
    /\ UNCHANGED <<document, cache, runVars, file_path>>
    /\ UNCHANGED diffVars
    /\ UNCHANGED cliVars

\* TafsirDocumentProcessor(file_path)
InitLoad ==
    /\ file_path \in {NoPath} \cup LoadPaths
    /\ document = NoDocument
    /\ blocks = <<>>
    /\ stats = NoStats
    /\ load_return = None
    /\ cache = {}
    /\ IdleRun
    /\ IdleDiff
    /\ IdleCli

NextLoad ==
    \/ \E path_arg \in {NoPath} \cup LoadPaths : load(path_arg)
    \/ classify_document
    \/ get_stats

SpecLoad == InitLoad /\ [][NextLoad]_vars

-----------------------------------------------------------------------------
(* The correction commands.                                                *)

\* [b for b in self.blocks if b.can_process_with_ai]
get_ai_processable_blocks == SelectSeq(blocks, LAMBDA b : b.can_process_with_ai)

get_blocks_by_type(block_type) ==
    SelectSeq(blocks, LAMBDA b : b.block_type = block_type)

\* ai_blocks[:max_blocks] when a limit is given
Sliced(queue, max_blocks) ==
    IF max_blocks > 0 /\ max_blocks < Len(queue)
    THEN SubSeq(queue, 1, max_blocks) ELSE queue

Changed(result) == result.was_changed /\ ~result.skipped_original

\* app.py main, "Найти ошибки и исправить": everything up to the loop
AppStart(useCache, clearCache, maxBlocks, dryRun) ==
    /\ pc = "idle"
    /\ blocks # <<>>
    /\ kind' = "app"
    /\ use_cache' = useCache
    /\ dry_run' = dryRun
    /\ ai_blocks' = Sliced(get_ai_processable_blocks, maxBlocks)
    /\ cache' = IF useCache /\ clearCache THEN EditCache_clear(cache) ELSE cache
    /\ startCache' = cache'
    /\ pos' = 0
    /\ results' = <<>>
    /\ total_changed' = 0
    /\ total_cached' = 0
    /\ total_skipped' = 0
    /\ halted' = FALSE
    /\ gatewayLog' = <<>>
    /\ lastResult' = NoResult
    /\ modified' = {}
    /\ applied' = <<>>
    /\ pc' = IF ai_blocks' = <<>> THEN "apply" ELSE "loop"
    /\ UNCHANGED <<document, blocks>>
    /\ UNCHANGED diffVars
    /\ UNCHANGED loadVars
    /\ UNCHANGED cliVars

CachedResultNeverFound(block) == {}

\* cached_result = cache.get_result(block.index) if cache else None
CachedResult(block) ==
    IF use_cache THEN EditCache_get_result(cache, block.index) ELSE {}

\* app.py main: one pass of the loop body, for ai_blocks[pos]
AppStep ==
    /\ pc = "loop"
    /\ kind = "app"
    /\ pos < Len(ai_blocks)
    /\ LET block == ai_blocks[pos + 1]
           cached_result == CachedResult(block)
       IN  IF cached_result # {}
           THEN LET result == CHOOSE r \in cached_result : TRUE
                IN  /\ results' = Append(results, result)
                    /\ total_cached' = total_cached + 1
                    /\ total_changed' = total_changed + (IF Changed(result) THEN 1 ELSE 0)
                    /\ pos' = pos + 1
                    /\ pc' = IF pos' = Len(ai_blocks) THEN "apply" ELSE "loop"
                    /\ UNCHANGED <<cache, gatewayLog, lastResult, halted>>
           ELSE \E outcome \in GatewayOutcomes(block.text) :
                LET e == edit_block(TRUE, block, outcome)
                    result == e.result
                IN  /\ gatewayLog' = gatewayLog \o LogOf(block, e.calls)
                    /\ lastResult' = <<result>>
                    /\ cache' = IF use_cache
                                THEN EditCache_save_result(cache, result)
                                ELSE cache
                    /\ IF result.error # None
                       THEN /\ halted' = TRUE
                            /\ pc' = "apply"
                            /\ UNCHANGED <<results, total_changed, pos>>
                       ELSE /\ results' = Append(results, result)
                            /\ total_changed' =
                                  total_changed + (IF Changed(result) THEN 1 ELSE 0)
                            /\ pos' = pos + 1
                            /\ pc' = IF pos' = Len(ai_blocks) THEN "apply" ELSE "loop"
                            /\ UNCHANGED halted
                    /\ UNCHANGED total_cached
    /\ UNCHANGED <<document, blocks, kind, use_cache, dry_run, ai_blocks,
                   total_skipped, startCache, modified, applied>>
    /\ UNCHANGED diffVars
    /\ UNCHANGED loadVars
    /\ UNCHANGED cliVars

\* edit_document: everything up to the loop
CliStart(maxBlocks, dryRun) ==
    /\ pc = "idle"
    /\ blocks # <<>>
    /\ kind' = "cli"
    /\ use_cache' = FALSE
    /\ dry_run' = dryRun
    /\ ai_blocks' = Sliced(get_ai_processable_blocks, maxBlocks)
    /\ startCache' = cache
    /\ pos' = 0
    /\ results' = <<>>
    /\ total_changed' = 0
    /\ total_cached' = 0
    /\ total_skipped' = 0
    /\ halted' = FALSE
    /\ gatewayLog' = <<>>
    /\ lastResult' = NoResult
    /\ modified' = {}
    /\ applied' = <<>>
    /\ pc' = IF ai_blocks' = <<>> THEN "apply" ELSE "loop"
    /\ UNCHANGED <<document, blocks, cache>>
    /\ UNCHANGED diffVars
    /\ UNCHANGED loadVars
    /\ UNCHANGED cliVars

\* edit_document: one pass of the loop body, for ai_blocks[pos]
CliStep ==
    /\ pc = "loop"
    /\ kind = "cli"
    /\ pos < Len(ai_blocks)
    /\ LET block == ai_blocks[pos + 1]
       IN  \E outcome \in GatewayOutcomes(block.text) :
           LET e == edit_block(TRUE, block, outcome)
               result == e.result
           IN  /\ gatewayLog' = gatewayLog \o LogOf(block, e.calls)
               /\ lastResult' = <<result>>
               /\ results' = Append(results, result)
               /\ total_skipped' = total_skipped +
                     (IF result.error = None /\ result.skipped_original THEN 1 ELSE 0)
               /\ total_changed' = total_changed +
                     (IF /\ result.error = None
                         /\ ~result.skipped_original
                         /\ result.was_changed THEN 1 ELSE 0)
    /\ pos' = pos + 1
    /\ pc' = IF pos' = Len(ai_blocks) THEN "apply" ELSE "loop"
    /\ UNCHANGED <<document, blocks, cache, kind, use_cache, dry_run, ai_blocks,
                   total_cached, halted, startCache, modified, applied>>
    /\ UNCHANGED diffVars
    /\ UNCHANGED loadVars
    /\ UNCHANGED cliVars

\* both commands, after the loop: writer.apply_edits(results, ayah_blocks)
ApplyEdits ==
    /\ pc = "apply"
    /\ modified' = IF ~dry_run /\ (total_changed > 0 \/ get_blocks_by_type("AYAH") # <<>>)
                   THEN apply_edits(results)
                   ELSE {}
    /\ applied' = IF ~dry_run /\ (total_changed > 0 \/ get_blocks_by_type("AYAH") # <<>>)
                  THEN apply_edits_order(results, 1)
                  ELSE <<>>
    /\ pc' = "done"
    /\ UNCHANGED <<document, blocks, cache, kind, use_cache, dry_run, ai_blocks,
                   pos, results, total_changed, total_cached, total_skipped,
                   halted, gatewayLog, lastResult, startCache>>
    /\ UNCHANGED diffVars
    /\ UNCHANGED loadVars
    /\ UNCHANGED cliVars

\* the command returns: its local variables are gone, the cache file stays
Return ==
    /\ pc = "done"
    /\ pc' = "idle"
    /\ kind' = "none"
    /\ use_cache' = FALSE
    /\ dry_run' = FALSE
    /\ ai_blocks' = <<>>
    /\ pos' = 0
    /\ results' = <<>>
    /\ total_changed' = 0
    /\ total_cached' = 0
    /\ total_skipped' = 0
    /\ halted' = FALSE
    /\ gatewayLog' = <<>>
    /\ lastResult' = NoResult
    /\ startCache' = {}
    /\ modified' = {}
    /\ applied' = <<>>
    /\ UNCHANGED <<document, blocks, cache>>
    /\ UNCHANGED diffVars
    /\ UNCHANGED loadVars
    /\ UNCHANGED cliVars

\* editor.edit_block(block) on a block handed to it directly
EditBlockDirect(k, client_ready) ==
    /\ pc = "idle"
    /\ k \in 1..Len(blocks)
    /\ \E outcome \in GatewayOutcomes(blocks[k].text) :
       LET e == edit_block(client_ready, blocks[k], outcome)
       IN  /\ gatewayLog' = LogOf(blocks[k], e.calls)
           /\ lastResult' = <<e.result>>
    /\ kind' = "direct"
    /\ pc' = "done"
    /\ UNCHANGED <<document, blocks, cache, use_cache, dry_run, ai_blocks, pos,
                   results, total_changed, total_cached, total_skipped, halted,
                   startCache, modified, applied>>
    /\ UNCHANGED diffVars
    /\ UNCHANGED loadVars
    /\ UNCHANGED cliVars

Init ==
    /\ SampleLoaded
    /\ IdleCli
    /\ document \in Documents
    /\ blocks = <<>>
    /\ cache = {}
    /\ IdleRun
    /\ IdleDiff

Next ==
    \/ classify_document
    \/ \E useCache \in BOOLEAN, clearCache \in BOOLEAN, dryRun \in BOOLEAN,
          maxBlocks \in 0..MaxParas : AppStart(useCache, clearCache, maxBlocks, dryRun)
    \/ AppStep
    \/ \E maxBlocks \in 0..MaxParas, dryRun \in BOOLEAN : CliStart(maxBlocks, dryRun)
    \/ CliStep
    \/ ApplyEdits
    \/ Return
    \/ \E k \in 1..MaxParas, client_ready \in BOOLEAN : EditBlockDirect(k, client_ready)

Spec == Init /\ [][Next]_vars

-----------------------------------------------------------------------------
(* main.py --edit FILE: the command line, from the arguments to the exit   *)
(* status. The OpenAI client is taken to be constructible from a key.      *)

\* main: if not Path(args.edit).exists(): sys.exit(1)
main_edit ==
    /\ main_pc = "main"
    /\ IF ~Exists(argv_edit)
         THEN /\ exit_status' = sys_exit(1)
              /\ main_pc' = "exited"
         ELSE /\ main_pc' = "edit_document_with_ai"
              /\ UNCHANGED exit_status
    /\ UNCHANGED <<argv_edit, api_key>>
    /\ UNCHANGED <<document, blocks, cache, runVars>>
    /\ UNCHANGED diffVars
    /\ UNCHANGED loadVars

\* edit_document_with_ai: without a key it returns False, and main returns
edit_document_with_ai ==
    /\ main_pc = "edit_document_with_ai"
    /\ IF ~api_key
         THEN /\ exit_status' = sys_exit(0)
              /\ main_pc' = "exited"
         ELSE /\ main_pc' = "edit_document"
              /\ UNCHANGED exit_status
    /\ UNCHANGED <<argv_edit, api_key>>
    /\ UNCHANGED <<document, blocks, cache, runVars>>
    /\ UNCHANGED diffVars
    /\ UNCHANGED loadVars

\* edit_document: if not processor.load(input_path): return 0, 0, [] and
\* edit_document_with_ai returns True, main returns
edit_document_load ==
    /\ main_pc = "edit_document"
    /\ load_body(argv_edit)
    /\ IF load_return' = "False"
         THEN /\ exit_status' = sys_exit(0)
              /\ main_pc' = "exited"
         ELSE /\ main_pc' = "run"
              /\ UNCHANGED exit_status
    /\ UNCHANGED <<argv_edit, api_key>>
    /\ UNCHANGED <<cache, runVars>>
    /\ UNCHANGED diffVars

\* edit_document has returned its counts: edit_document_with_ai returns True
\* and main returns
main_return ==
    /\ main_pc = "run"
    /\ pc = "done"
    /\ exit_status' = sys_exit(0)
    /\ main_pc' = "exited"
    /\ UNCHANGED <<argv_edit, api_key>>
    /\ UNCHANGED <<document, blocks, cache, runVars>>
    /\ UNCHANGED diffVars
    /\ UNCHANGED loadVars

\* python main.py --edit FILE [--dry-run] [--max-blocks N]
InitCli ==
    /\ argv_edit \in LoadPaths
    /\ api_key \in BOOLEAN
    /\ exit_status = NotExited
    /\ main_pc = "main"
    /\ file_path = NoPath
    /\ document = NoDocument
    /\ blocks = <<>>
    /\ stats = NoStats
    /\ load_return = None
    /\ cache = {}
    /\ IdleRun
    /\ IdleDiff

NextCli ==
    \/ main_edit
    \/ edit_document_with_ai
    \/ edit_document_load
    \/ (main_pc = "run" /\ blocks = <<>> /\ classify_document)
    \/ (main_pc = "run" /\
          \E maxBlocks \in 0..MaxParas, dryRun \in BOOLEAN : CliStart(maxBlocks, dryRun))
    \/ CliStep
    \/ ApplyEdits
    \/ main_return

SpecCli == InitCli /\ [][NextCli]_vars

-----------------------------------------------------------------------------
(* The word diff on its own: _compute_word_diff and apply_visual_diff on   *)
(* one paragraph, for pairs of texts.                                      *)

MaxOldWords == 4

MaxNewWords == 3

DiffWords == {<<"cy_a">>, <<"cy_b">>, <<"cy_t">>}

WordLists(n) == UNION {[1..m -> DiffWords] : m \in 0..n}

RepWords(w, n) == [k \in 1..n |-> w]

\* texts whose words are not separated by single spaces
OddTexts ==
    {<<"SP">>,
     <<"TAB", "cy_a", "SP", "SP", "cy_b", "NL">>,
     <<"cy_a", "NBSP", "cy_b", "NL", "cy_t">>}

OldTexts == {Join(w) : w \in WordLists(MaxOldWords)} \cup OddTexts

NewTexts == {Join(w) : w \in WordLists(MaxNewWords)} \cup OddTexts

\* texts long enough for the popularity heuristic of SequenceMatcher
LongText(head, n, tail) == Join(head \o RepWords(<<"cy_a">>, n) \o tail)

LongPairs ==
    {<<LongText(<<>>, AutojunkMinLen, <<>>), LongText(<<>>, AutojunkMinLen, <<>>)>>,
     <<LongText(<<<<"cy_b">>>>, AutojunkMinLen, <<>>),
       LongText(<<>>, AutojunkMinLen, <<<<"cy_b">>>>)>>,
     <<LongText(<<>>, AutojunkMinLen, <<>>), <<"cy_a", "SP", "cy_b">>>>}

DiffPairs == (OldTexts \X NewTexts) \cup LongPairs

\* VisualDiffWriter._compute_word_diff(old_text, new_text)
ComputeWordDiff ==
    /\ diff_pc = "start"
    /\ diff_ops' = _compute_word_diff(diff_original, diff_edited)
    /\ diff_pc' = "diffed"
    /\ UNCHANGED <<document, blocks, cache, runVars, diff_original, diff_edited,
                   diff_paragraph>>
    /\ UNCHANGED loadVars
    /\ UNCHANGED cliVars

\* VisualDiffWriter.apply_visual_diff(paragraph_index, original, edited)
ApplyVisualDiff(paragraph_index) ==
    /\ diff_pc = "start"
    /\ IF apply_visual_diff(paragraph_index, diff_original, diff_edited)
         THEN /\ diff_ops' = _compute_word_diff(diff_original, diff_edited)
              /\ diff_paragraph' = RenderedRuns(diff_original, diff_edited)
              /\ diff_pc' = "returned True"
         ELSE /\ diff_pc' = "returned False"
              /\ UNCHANGED <<diff_ops, diff_paragraph>>
    /\ UNCHANGED <<document, blocks, cache, runVars, diff_original, diff_edited>>
    /\ UNCHANGED loadVars
    /\ UNCHANGED cliVars

InitDiff ==
    /\ SampleLoaded
    /\ IdleCli
    /\ \E pair \in DiffPairs :
          /\ diff_original = pair[1]
          /\ diff_edited = pair[2]
    /\ diff_ops = <<>>
    /\ diff_paragraph = <<PlainRun(diff_original)>>
    /\ diff_pc = "start"
    /\ document = <<[runs |-> <<Run(diff_original, None, NoColor)>>, style |-> "Normal"]>>
    /\ blocks = <<>>
    /\ cache = {}
    /\ IdleRun

NextDiff ==
    \/ ComputeWordDiff
    \/ \E paragraph_index \in 0..1 : ApplyVisualDiff(paragraph_index)

SpecDiff == InitDiff /\ [][NextDiff]_vars

BlockSet == {blocks[k] : k \in 1..Len(blocks)}

\* C1: every block classification produces that is SCRIPTURE (AYAH) has
\* can_process_with_ai = FALSE, whatever its text, font, colour and style.
C1_ScriptureNeverEligible ==
    \A b \in BlockSet : b.block_type = "AYAH" => ~b.can_process_with_ai

C1_Witness ==
    \E b \in BlockSet :
        b.block_type = "AYAH" /\ b.has_cyrillic /\ b.is_red_text

\* the type the decision list of the claim gives a classified block
C9_Expected(b, style) ==
    LET a == b.arabic_ratio.num
        n == b.arabic_ratio.den
        red == /\ b.text_color # <<>>
               /\ b.text_color[1] > 150 /\ b.text_color[2] < 100
               /\ b.text_color[3] < 100
        typeface == b.primary_font \in {"Traditional Arabic", "Amiri"}
        named == b.primary_font \in {"Traditional Arabic", "Adobe Arabic"}
        stripped == Strip(b.text)
    IN  CASE stripped = <<>> -> "EMPTY"
          [] OTHER ->
        CASE style = "Heading 1" -> "HEADER"
          [] OTHER ->
        CASE 10 * a > 9 * n /\ red -> "AYAH"
          [] OTHER ->
        CASE 10 * a > 9 * n /\ typeface -> "AYAH"
          [] OTHER ->
        CASE 100 * a > 95 * n -> "AYAH"
          [] OTHER ->
        CASE 10 * a > 8 * n /\ named -> "AYAH"
          [] OTHER ->
        CASE a = 0 /\ b.has_cyrillic /\ Len(stripped) < 500 -> "TRANSLATION"
          [] OTHER ->
        CASE b.has_cyrillic /\ 10 * a < 3 * n -> "COMMENTARY"
          [] OTHER ->
        CASE b.has_cyrillic /\ b.has_arabic /\ 10 * a < 5 * n -> "COMMENTARY"
          [] OTHER ->
        CASE MatchesRefPattern(Lower(stripped)) -> "REFERENCE"
          [] OTHER ->
        CASE b.has_arabic /\ ~b.has_cyrillic -> "AYAH"
          [] OTHER -> "UNKNOWN"

C10_PrefixIsExplanation ==
    \A k \in 1..Len(blocks) :
        ( /\ Strip(blocks[k].text) # <<>>
          /\ ~StyleIsHeading(document[k].style)
          /\ BeginsWithExplanationPrefix(blocks[k].text) )
            => ( /\ blocks[k].block_type = "EXPLANATION"
                 /\ blocks[k].can_process_with_ai )

\* C11: a classified block is eligible for correction (can_process_with_ai)
\* exactly when its type is TRANSLATION, COMMENTARY or EXPLANATION.
C11_EligibleIffCorrectableType ==
    \A b \in BlockSet :
        b.can_process_with_ai
            <=> b.block_type \in {"TRANSLATION", "COMMENTARY", "EXPLANATION"}

\* a TRANSLATION block, which is eligible
C11_Witness ==
    \E b \in BlockSet :
        b.block_type = "TRANSLATION" /\ b.can_process_with_ai /\ ~b.has_arabic

\* the colour counts as red: r > 150, g < 100, b < 100
RedColour(rgb) == rgb # <<>> /\ rgb[1] > 150 /\ rgb[2] < 100 /\ rgb[3] < 100

\* C12: a non-empty, non-heading paragraph with ratio > 0.9 and a red font
\* colour is SCRIPTURE by the red + high-ratio rule, and carries that rule's
\* reason also when the ratio exceeds 0.95 or the typeface is Arabic.
C12_RedRuleSuppliesReason ==
    \A k \in 1..Len(blocks) :
        ( /\ Strip(blocks[k].text) # <<>>
          /\ ~StyleIsHeading(document[k].style)
          /\ 10 * blocks[k].arabic_ratio.num > 9 * blocks[k].arabic_ratio.den
          /\ RedColour(blocks[k].text_color) )
            => ( /\ blocks[k].block_type = "AYAH"
                 /\ blocks[k].detection_reason = "Pure Arabic + red color" )

\* ratio 1 > 0.95, red, in a recognized Arabic typeface: three rules hold
C12_Witness ==
    \E k \in 1..Len(blocks) :
        /\ document[k].style = "Normal"
        /\ blocks[k].arabic_ratio.num = blocks[k].arabic_ratio.den
        /\ blocks[k].has_arabic
        /\ RedColour(blocks[k].text_color)
        /\ blocks[k].primary_font = "Traditional Arabic"
        /\ blocks[k].detection_reason = "Pure Arabic + red color"

-----------------------------------------------------------------------------
(* The correction commands: what is claimed of them.                       *)

LogIndices == {gatewayLog[k].block_index : k \in 1..Len(gatewayLog)}

QueueIndices == {ai_blocks[k].index : k \in 1..Len(ai_blocks)}

\* the results edit_block returned in this run
FreshResults ==
    {r \in {results[k] : k \in 1..Len(results)} \cup {lastResult[k] : k \in 1..Len(lastResult)} :
        r.block_index \in LogIndices}

InRun == pc \in {"loop", "apply", "done"} /\ kind \in {"app", "cli"}

\* C2: the gateway is never asked about a block whose type is outside
\* {TRANSLATION, COMMENTARY, EXPLANATION}, by a run of either command or by
\* edit_block on a block handed to it directly.
C2_GatewayOnlyForEligible ==
    \A k \in 1..Len(gatewayLog) :
        blocks[gatewayLog[k].block_index + 1].block_type
            \in {"TRANSLATION", "COMMENTARY", "EXPLANATION"}

\* edit_block was handed a SCRIPTURE block and sent nothing
C2_Witness ==
    /\ kind = "direct"
    /\ lastResult # <<>>
    /\ blocks[lastResult[1].block_index + 1].block_type = "AYAH"
    /\ lastResult[1].error = "Block is not marked for AI processing"
    /\ gatewayLog = <<>>

\* C3: once the result of a block is Failed in a run, the gateway is not
\* invoked for any later block of that run.
C3_FailFast ==
    \A j \in 1..Len(gatewayLog), k \in 1..Len(gatewayLog) :
        ( /\ j < k
          /\ gatewayLog[j].raised
          /\ \E r \in FreshResults :
                r.block_index = gatewayLog[j].block_index /\ r.error # None )
            => gatewayLog[k].block_index = gatewayLog[j].block_index

\* C4: a result carries a gateway failure only after the gateway call has
\* failed on 3 consecutive attempts for that block.
C4_FailureAfterThreeAttempts ==
    \A r \in FreshResults :
        r.error = "OpenAI API error"
            => Cardinality({k \in 1..Len(gatewayLog) :
                               /\ gatewayLog[k].block_index = r.block_index
                               /\ gatewayLog[k].raised}) = max_retries

\* C5: an empty or whitespace-only answer of the gateway makes the result a
\* no-op: edited text = original text, not changed, no failure, no diff.
C5_BlankResponseIsNoOp ==
    \A k \in 1..Len(gatewayLog), r \in FreshResults :
        (gatewayLog[k].blank /\ r.block_index = gatewayLog[k].block_index)
            => ( /\ r.edited_text = r.original_text
                 /\ ~r.was_changed
                 /\ r.error = None
                 /\ r.block_index \notin modified )

StartCached == {r.block_index : r \in startCache} \cap QueueIndices

C8_WriteThrough ==
    (InRun /\ ~(kind = "app" /\ ~use_cache))
        => \A r \in FreshResults : r \in cache

\* C19: when the gateway answers the keyword ORIGINAL, in any letter case and
\* with surrounding whitespace, the result is unchanged, marked
\* skipped_original, keeps the original text, carries no failure, and
\* apply_edits renders no diff for the block.
C19_SentinelMeansUnchanged ==
    \A k \in 1..Len(gatewayLog), r \in FreshResults :
        ( /\ gatewayLog[k].keyword
          /\ r.block_index = gatewayLog[k].block_index )
            => ( /\ ~r.was_changed
                 /\ r.skipped_original
                 /\ r.edited_text = r.original_text
                 /\ r.error = None
                 /\ r.block_index \notin modified )

\* a finished run in which the gateway answered the keyword for a block
C19_Witness ==
    /\ pc = "done" /\ kind \in {"app", "cli"}
    /\ \E k \in 1..Len(gatewayLog), r \in FreshResults :
          /\ gatewayLog[k].keyword
          /\ r.block_index = gatewayLog[k].block_index
          /\ r.skipped_original

\* every result edit_block has returned: those of the run, the latest one,
\* and those saved to the cache
EditBlockResults ==
    {results[k] : k \in 1..Len(results)} \cup {lastResult[k] : k \in 1..Len(lastResult)}
        \cup cache

\* C20: in every result of edit_block, was_changed holds exactly when the
\* trimmed edited text differs from the trimmed original text and the result
\* is not skipped_original.
C20_ChangedIffTrimmedTextsDiffer ==
    \A r \in EditBlockResults :
        r.was_changed
            <=> (Strip(r.edited_text) # Strip(r.original_text) /\ ~r.skipped_original)

\* the gateway gave the text back without its trailing space: the texts
\* differ, the trimmed texts do not
C20_Witness ==
    \E r \in EditBlockResults :
        /\ r.block_index \in LogIndices
        /\ r.error = None
        /\ ~r.skipped_original
        /\ r.edited_text # r.original_text
        /\ ~r.was_changed

\* C21: a result that carries a failure has was_changed = FALSE and its
\* edited text equal to its original text, whether the failure is a gateway
\* exception, an uninitialized client or a block that is not eligible.
C21_FailureKeepsOriginal ==
    \A r \in EditBlockResults :
        r.error # None => (~r.was_changed /\ r.edited_text = r.original_text)

\* the gateway raised for a block whose text ends in whitespace
C21_Witness ==
    \E r \in EditBlockResults :
        /\ r.error = "OpenAI API error"
        /\ Strip(r.original_text) # r.original_text
        /\ r.block_index \in LogIndices

\* C23: the Arabic ratio of every block lies in [0,1]; it is 0 when the text
\* has no Arabic character and 0 when the text has no non-whitespace character.
C23_RatioInUnitInterval ==
    \A b \in BlockSet :
        /\ b.arabic_ratio.den > 0
        /\ 0 <= b.arabic_ratio.num
        /\ b.arabic_ratio.num <= b.arabic_ratio.den
        /\ CountIn(b.text, ArabicChars) = 0 => b.arabic_ratio.num = 0
        /\ Strip(b.text) = <<>> => b.arabic_ratio.num = 0

\* a mixed paragraph: the ratio is strictly between 0 and 1
C23_Witness ==
    \E b \in BlockSet :
        /\ b.has_arabic /\ b.has_cyrillic
        /\ 0 < b.arabic_ratio.num
        /\ b.arabic_ratio.num < b.arabic_ratio.den

\* C24: the Arabic ratio is the number of Arabic characters over the number
\* of non-whitespace characters, whatever the kind of whitespace.
C24_RatioOverNonWhitespace ==
    \A b \in BlockSet :
        LET nonWhitespace == Len(SelectSeq(b.text, LAMBDA c : ~IsSpace(c)))
        IN  IF nonWhitespace = 0 THEN b.arabic_ratio.num = 0
            ELSE b.arabic_ratio.num * nonWhitespace
                    = CountIn(b.text, ArabicChars) * b.arabic_ratio.den

\* C28: every block eligible for correction, and every TRANSLATION or
\* COMMENTARY block, holds at least one Cyrillic character; so a paragraph with
\* Arabic and no Cyrillic characters is never one of them.
C28_EligibleHasCyrillic ==
    \A b \in BlockSet :
        (b.can_process_with_ai \/ b.block_type \in {"TRANSLATION", "COMMENTARY"})
            => CountIn(b.text, CyrillicLower \cup CyrillicUpper) > 0

\* Arabic without Cyrillic at a ratio under 0.3, and not eligible
C28_Witness ==
    \E b \in BlockSet :
        /\ CountIn(b.text, ArabicChars) > 0
        /\ CountIn(b.text, CyrillicLower \cup CyrillicUpper) = 0
        /\ RatioLT(b.arabic_ratio, 3, 10)
        /\ ~b.can_process_with_ai
        /\ b.block_type \notin {"TRANSLATION", "COMMENTARY"}

\* the runs _extract_font_info does not skip
SignificantRuns(paragraph) ==
    {k \in 1..Len(paragraph.runs) : Strip(paragraph.runs[k].text) # <<>>}

NamedRuns(paragraph) ==
    {k \in SignificantRuns(paragraph) : paragraph.runs[k].name # None}

Last(S) == CHOOSE k \in S : \A m \in S : m <= k

First(S) == CHOOSE k \in S : \A m \in S : k <= m

\* C25: the descriptor of a paragraph holds the name, size, weight, slant and
\* colour of one run, the first non-blank run that names a font; nothing of an
\* earlier run without a font name shows in it.
C25_DescriptorOfOneRun ==
    \A i \in 1..Len(blocks) :
        NamedRuns(document[i]) # {} =>
            LET r == document[i].runs[First(NamedRuns(document[i]))]
                b == blocks[i]
            IN  /\ b.primary_font = r.name
                /\ b.font_size = r.size
                /\ b.is_bold = r.bold
                /\ b.is_italic = r.italic
                /\ b.text_color = r.color_rgb

StrictlyIncreasing(seq) == \A i, j \in 1..Len(seq) : i < j => seq[i] < seq[j]

\* C22: within a run the gateway is asked and the results are listed in
\* strictly increasing block-index order, the cached loop saves a result only
\* for a block it has just asked about (so in that order too), and apply_edits
\* rewrites the paragraphs in that same order.
C22_IncreasingIndexOrder ==
    InRun =>
        /\ StrictlyIncreasing([k \in 1..Len(gatewayLog) |-> gatewayLog[k].block_index])
        /\ StrictlyIncreasing([k \in 1..Len(results) |-> results[k].block_index])
        /\ (kind = "app" /\ use_cache)
              => \A r \in cache \ startCache : r.block_index \in LogIndices
        /\ StrictlyIncreasing(applied)
        /\ \A i \in 1..Len(applied) :
              \E k \in 1..Len(results) : results[k].block_index = applied[i]

\* two paragraphs were rewritten by one run
C22_Witness ==
    /\ pc = "done" /\ kind \in {"app", "cli"}
    /\ Len(applied) = 2
    /\ Len(gatewayLog) = 2

-----------------------------------------------------------------------------
(* The word diff: what is claimed of it.                                   *)

Diffed == diff_pc \in {"diffed", "returned True"}

\* the tokens of the spans of the given kinds, in order
RECURSIVE SpanTokens(_, _, _)
SpanTokens(ops, k, kinds) ==
    IF k > Len(ops) THEN <<>>
    ELSE (IF ops[k].operation \in kinds THEN Split(ops[k].text) ELSE <<>>)
            \o SpanTokens(ops, k + 1, kinds)

\* C13: the tokens of the DELETE and EQUAL spans, in order, are the whitespace
\* tokenization of the original, and those of the INSERT and EQUAL spans that
\* of the corrected text.
C13_DiffRoundTrip ==
    Diffed =>
        /\ SpanTokens(diff_ops, 1, {"delete", "equal"}) = Split(diff_original)
        /\ SpanTokens(diff_ops, 1, {"insert", "equal"}) = Split(diff_edited)

\* a diff with all three kinds of span, of a text with irregular whitespace
C13_Witness ==
    /\ diff_pc = "diffed"
    /\ diff_original = <<"TAB", "cy_a", "SP", "SP", "cy_b", "NL">>
    /\ {diff_ops[k].operation : k \in 1..Len(diff_ops)} = {"equal", "delete", "insert"}

\* C14 as stated: diff(t, t) is exactly one EQUAL span with all tokens of t,
\* for every text t.
C14_IdenticalIsOneEqualSpan ==
    (diff_pc = "diffed" /\ diff_original = diff_edited)
        => /\ Len(diff_ops) = 1
           /\ diff_ops[1].operation = "equal"
           /\ Split(diff_ops[1].text) = Split(diff_original)

\* C14, amended: diff(t, t) is exactly one EQUAL span with all tokens of t,
\* for every text t that has at least one token, and no span at all for a
\* text without tokens.
C14_IdenticalNonEmptyIsOneEqualSpan ==
    (diff_pc = "diffed" /\ diff_original = diff_edited)
        => IF Split(diff_original) = <<>> THEN diff_ops = <<>>
           ELSE /\ Len(diff_ops) = 1
                /\ diff_ops[1].operation = "equal"
                /\ Split(diff_ops[1].text) = Split(diff_original)

\* diff(t, t) of a text of 200 equal words, none of which may start a match
C14_Witness ==
    /\ diff_pc = "diffed"
    /\ diff_original = diff_edited
    /\ Len(Split(diff_original)) = AutojunkMinLen
    /\ Len(diff_ops) = 1

\* C15: a replaced run is one DELETE span immediately followed by one INSERT
\* span: an INSERT span is followed by an EQUAL span or by nothing, a DELETE
\* span by an INSERT span, an EQUAL span or nothing.
C15_DeleteBeforeInsert ==
    Diffed =>
        \A k \in 1..(Len(diff_ops) - 1) :
            /\ diff_ops[k].operation = "insert" => diff_ops[k + 1].operation = "equal"
            /\ diff_ops[k].operation = "delete" => diff_ops[k + 1].operation # "delete"

\* a replaced run: DELETE immediately followed by INSERT
C15_Witness ==
    /\ diff_pc = "diffed"
    /\ \E k \in 1..(Len(diff_ops) - 1) :
          /\ diff_ops[k].operation = "delete"
          /\ diff_ops[k + 1].operation = "insert"
          /\ Len(Split(diff_ops[k].text)) = 2

\* the length of the longest common subsequence of a[1..i] and b[1..j]
RECURSIVE LcsLen(_, _, _, _)
LcsLen(a, b, i, j) ==
    IF i = 0 \/ j = 0 THEN 0
    ELSE IF a[i] = b[j] THEN 1 + LcsLen(a, b, i - 1, j - 1)
    ELSE LET x == LcsLen(a, b, i - 1, j)
             y == LcsLen(a, b, i, j - 1)
         IN  IF x > y THEN x ELSE y

\* C16: the EQUAL spans hold as many tokens as the longest common subsequence
\* of the two token sequences (stated for the texts too short for the
\* popularity heuristic).
C16_DiffIsMinimal ==
    (diff_pc = "diffed" /\ Len(diff_original) < AutojunkMinLen
                        /\ Len(diff_edited) < AutojunkMinLen)
        => Len(SpanTokens(diff_ops, 1, {"equal"}))
              = LcsLen(Split(diff_original), Split(diff_edited),
                       Len(Split(diff_original)), Len(Split(diff_edited)))

IsSeparator(run) ==
    run.text = <<"SP">> /\ ~run.strike /\ run.highlight_color = None

\* the runs of the rewritten paragraph that are spans
Spans == {p \in 1..Len(diff_paragraph) : ~IsSeparator(diff_paragraph[p])}

\* q is the span that follows span p
Follows(p, q) == p \in Spans /\ q \in Spans /\ p < q /\ \A m \in Spans : ~(p < m /\ m < q)

ReplacePair(p, q) ==
    diff_paragraph[p].strike /\ diff_paragraph[q].highlight_color = "YELLOW"

\* C17: in the rewritten paragraph exactly one separator space stands between
\* two consecutive spans that are not the DELETE/INSERT pair of a replace, and
\* none before the first or after the last span.
C17_OneSeparatorBetweenSpans ==
    diff_pc = "returned True" =>
        /\ diff_paragraph # <<>>
              => 1 \in Spans /\ Len(diff_paragraph) \in Spans
        /\ \A p, q \in 1..Len(diff_paragraph) :
              (Follows(p, q) /\ ~ReplacePair(p, q)) => q = p + 2

\* C18: in the rewritten paragraph no separator space stands between the
\* DELETE span and the INSERT span of one replace.
C18_NoSeparatorInsideReplace ==
    diff_pc = "returned True" =>
        \A p, q \in 1..Len(diff_paragraph) :
            (Follows(p, q) /\ ReplacePair(p, q)) => q = p + 1


\* C29: when the texts count as changed (their trimmed forms differ), and so
\* whenever apply_visual_diff has cleared and rewritten the paragraph and
\* returned True for apply_edits to count, the word diff holds at least one
\* DELETE or INSERT span.
C29_ChangedDiffHasEdit ==
    (Diffed /\ WasChanged(diff_edited, diff_original))
        => \E k \in 1..Len(diff_ops) : diff_ops[k].operation \in {"delete", "insert"}


\* C30: a load() call that returns False leaves file_path, document, blocks
\* and the cached statistics as they were before the call.
C30_FailedLoadChangesNothing ==
    [][load_return' = "False" => UNCHANGED <<file_path, document, blocks, stats>>]_vars


\* C27: main.py --edit exits with status 1 when the key of the correction
\* service is missing or the document cannot be loaded, and with status 0
\* otherwise.
C27_ExitStatusTellsFailure ==
    main_pc = "exited" =>
        exit_status = IF ~api_key \/ LoadFails(argv_edit)
                      THEN sys_exit(1) ELSE sys_exit(0)

====
